---- MODULE Spec2Model ----
(***************************************************************************)
(* RBAC management dashboard: the relational store (permissions, roles,    *)
(* role_permissions, user_roles) and the three manager components          *)
(* (PermissionsManager, RolesManager, RolePermissionsManager) that drive   *)
(* it through asynchronous requests.                                       *)
(*                                                                         *)
(* Every asynchronous handler invocation is a task.  A request of a task   *)
(* is first "sent" (in flight to the store), then executed by the store in *)
(* one atomic statement (or lost to a transport failure), and its response *)
(* is then observed by the handler, which runs synchronously up to its     *)
(* next await.                                                             *)
(***************************************************************************)
EXTENDS Integers, Sequences, FiniteSets, Bags, TLC

\* ------------------------------------------------------------------ bounds
\* Rows seeded by the migration (the migration seeds 9 and 4).
SeedPermissions == 2
SeedRoles == 2
\* Ids gen_random_uuid() can hand out per table: ids are never reused.
MaxPermissionId == 3
MaxRoleId == 3
\* Values a form's name and description fields can take.
NumNames == 2
NumDescriptions == 1
\* External user accounts (auth.users).
NumUsers == 1
\* Handler invocations in flight at once: an administrator who waits for each
\* answer (MaxTasks), and one who does not (MaxOverlap).
MaxTasks == 1
MaxOverlap == 2

Sessions == {1, 2}
Names == 1..NumNames
Descriptions == 1..NumDescriptions
Users == 1..NumUsers
PermissionIds == 1..MaxPermissionId
RoleIds == 1..MaxRoleId
Kinds == {"permissions", "roles"}
MaxId(k) == IF k = "permissions" THEN MaxPermissionId ELSE MaxRoleId

\* selectedRole = '' and editingPermission = null.
NoRole == 0
Null == [id |-> 0, name |-> 0, description |-> 0]

VARIABLES
  permissions,       \* table permissions: id -> [name, description]
  roles,             \* table roles: id -> [name, description]
  role_permissions,  \* table role_permissions: set of <<role_id, permission_id>>
  user_roles,        \* table user_roles: set of <<user_id, role_id>>
  lastId,            \* ids handed out so far, per table
  tab,               \* per session: the tab whose manager is mounted, or "auth"
  manager,           \* per session and kind: PermissionsManager / RolesManager state
  assignment,        \* per session: RolePermissionsManager state
  toast,             \* per session: the notification the last step raised
  tasks              \* bag of handler invocations in flight

vars == <<permissions, roles, role_permissions, user_roles, lastId,
          tab, manager, assignment, toast, tasks>>
store == <<permissions, roles, role_permissions, user_roles, lastId>>

\* ------------------------------------------------------------------- store
Table(k) == IF k = "permissions" THEN permissions ELSE roles

Row(tbl, id) == [id |-> id, name |-> tbl[id].name, description |-> tbl[id].description]

\* .order('name'): name is UNIQUE, so the order is total.
RECURSIVE OrderByName(_)
OrderByName(rows) ==
  IF rows = {} THEN <<>>
  ELSE LET m == CHOOSE r \in rows : \A q \in rows : r.name <= q.name
       IN <<m>> \o OrderByName(rows \ {m})

\* from(k).select('*').order('name')
SelectAll(tbl) == OrderByName({Row(tbl, id) : id \in DOMAIN tbl})

\* from('role_permissions').select(role_id, permission_id, roles!inner(name),
\* permissions!inner(name)): the rows, inner-joined with both parents.
SelectRolePermissions ==
  {[role_id |-> rp[1], permission_id |-> rp[2],
    role |-> roles[rp[1]].name, permission |-> permissions[rp[2]].name] :
     rp \in {x \in role_permissions : x[1] \in DOMAIN roles /\ x[2] \in DOMAIN permissions}}

\* A variant of the name column without its UNIQUE constraint.
NameTakenNever(tbl, id, name) == FALSE

\* name TEXT NOT NULL UNIQUE: does writing `name` to row `id` (0: a new row)
\* collide with another row?
NameTaken(tbl, id, name) == \E other \in DOMAIN tbl : other # id /\ tbl[other].name = name

\* A variant of the insert that does not test the name.
InsertFailsNever(tbl, name) == FALSE

\* INSERT INTO k (name, description): a fresh id; fails on a taken name.
InsertFails(tbl, name) == NameTaken(tbl, 0, name)
InsertRow(tbl, id, name, description) ==
  [x \in DOMAIN tbl \cup {id} |->
     IF x = id THEN [name |-> name, description |-> description] ELSE tbl[x]]

\* A variant of the update that inserts the row when none matches (an upsert).
UpsertRow(tbl, id, name, description) ==
  [x \in DOMAIN tbl \cup {id} |->
     IF x = id THEN [name |-> name, description |-> description] ELSE tbl[x]]

\* UPDATE k SET name, description WHERE id = id: no row matches a missing id
\* (zero rows, no error); fails on a name another row holds.
UpdateFails(tbl, id, name) == id \in DOMAIN tbl /\ NameTaken(tbl, id, name)
UpdateRow(tbl, id, name, description) ==
  [x \in DOMAIN tbl |->
     IF x = id THEN [name |-> name, description |-> description] ELSE tbl[x]]

\* DELETE FROM k WHERE id = id.
DeleteRow(tbl, id) == [x \in DOMAIN tbl \ {id} |-> tbl[x]]

\* Variants of the foreign keys: role_permissions.permission_id and
\* user_roles.role_id without ON DELETE CASCADE.
CascadeRolePermissionsOfRoleOnly(k, id) ==
  IF k = "roles" THEN {rp \in role_permissions : rp[1] # id} ELSE role_permissions
CascadeUserRolesNone(k, id) == user_roles

\* ON DELETE CASCADE of role_permissions and user_roles.
CascadeRolePermissions(k, id) ==
  IF k = "roles" THEN {rp \in role_permissions : rp[1] # id}
  ELSE {rp \in role_permissions : rp[2] # id}
CascadeUserRoles(k, id) ==
  IF k = "roles" THEN {ur \in user_roles : ur[2] # id} ELSE user_roles

\* A variant of the commit's insert whose rows carry every role_id of roles.
InsertRolePermissionsForEveryRole(role, perms) ==
  role_permissions \cup ((DOMAIN roles) \X {perms[i] : i \in DOMAIN perms})

\* A variant of role_permissions without its two foreign keys: the insert
\* fails on a repeated primary key only.
InsertRolePermissionsFailsOnKeyOnly(role, perms) ==
  \/ \E i, j \in DOMAIN perms : i # j /\ perms[i] = perms[j]
  \/ \E i \in DOMAIN perms : <<role, perms[i]>> \in role_permissions

\* INSERT INTO role_permissions of the rows <<role, p>>, p in perms (a sequence):
\* one statement; it fails as a whole on a foreign key with no parent row or on
\* a primary key (role_id, permission_id) that occurs twice.
Range(seq) == {seq[i] : i \in DOMAIN seq}
HasDuplicates(seq) == \E i, j \in DOMAIN seq : i # j /\ seq[i] = seq[j]
InsertRolePermissionsFails(role, perms) ==
  \/ role \notin DOMAIN roles
  \/ \E p \in Range(perms) : p \notin DOMAIN permissions
  \/ HasDuplicates(perms)
  \/ \E p \in Range(perms) : <<role, p>> \in role_permissions
InsertRolePermissions(role, perms) ==
  role_permissions \cup {<<role, p>> : p \in Range(perms)}

\* A variant of the commit's delete without its filter on role_id.
DeleteRolePermissionsOfAll(role) == {}

\* Variants of the two deletes: one whose filter matches no row, and one that
\* lacks the filter on permission_id.
DeleteRolePermissionsOfNone(role) == role_permissions
DeleteRolePermissionAnyPermission(role, p) == {rp \in role_permissions : rp[1] # role}

\* DELETE FROM role_permissions WHERE role_id = role.
DeleteRolePermissionsOf(role) == {rp \in role_permissions : rp[1] # role}
\* DELETE FROM role_permissions WHERE role_id = role AND permission_id = p.
DeleteRolePermission(role, p) == role_permissions \ {<<role, p>>}

\* A response: { data, error }.
Ok(data) == [error |-> FALSE, data |-> data]
Failed == [error |-> TRUE, data |-> <<>>]
None == [error |-> FALSE, data |-> <<>>]

\* ------------------------------------------------------------------- tasks
Task(s, h, k, pc, arg) ==
  [s |-> s, h |-> h, k |-> k, pc |-> pc, live |-> TRUE, arg |-> arg, res |-> None]

InFlight == BagToSet(tasks)
Replace(t, u) == (tasks (-) SetToBag({t})) (+) SetToBag({u})
Finish(t) == tasks (-) SetToBag({t})
Start(u) == tasks (+) SetToBag({u})
TasksOf(s) == {t \in InFlight : t.s = s}
Busy(s, limit) == BagCardinality([t \in TasksOf(s) |-> tasks[t]]) >= limit

\* toast({ title, description }): `toast` holds, per session, the notification
\* the last step raised, if any.
NoToast == [title |-> "none", description |-> "none"]
Quiet == [s \in Sessions |-> NoToast]
Toast(s, title, description) ==
  [Quiet EXCEPT ![s] = [title |-> title, description |-> description]]

\* ---------------------------------------------------------------- managers
\* useState initial values of PermissionsManager / RolesManager.
ManagerInit == [rows |-> <<>>, loading |-> TRUE, isDialogOpen |-> FALSE, editing |-> Null]
\* useState initial values of RolePermissionsManager.
AssignmentInit ==
  [roles |-> <<>>, permissions |-> <<>>, rolePermissions |-> {},
   selectedRole |-> NoRole, selectedPermissions |-> <<>>,
   loading |-> TRUE, isDialogOpen |-> FALSE]

\* The task a manager's mount effect starts: useEffect(() => fetch...(), []).
NoArg == [id |-> 0]
FetchRowsTask(s, k) == Task(s, "fetchRows", k, "sent", NoArg)
FetchDataTask(s) ==
  [Task(s, "fetchData", "role_permissions", "sent",
        [pending |-> {"roles", "permissions", "role_permissions"}])
     EXCEPT !.res = [roles |-> None, permissions |-> None,
                     role_permissions |-> [error |-> FALSE, data |-> {}]]]
MountTask(s, t) == IF t = "assignments" THEN FetchDataTask(s) ELSE FetchRowsTask(s, t)

\* Unmounting a component drops its state; its tasks in flight run on, but
\* their state updates no longer reach a mounted component.
Orphan(s, t) == IF t.s = s THEN [t EXCEPT !.live = FALSE] ELSE t
Orphaned(s) ==
  [u \in {Orphan(s, t) : t \in InFlight} |->
     (IF u \in InFlight THEN tasks[u] ELSE 0)
     + (IF u.s = s /\ ~u.live /\ [u EXCEPT !.live = TRUE] \in InFlight
        THEN tasks[[u EXCEPT !.live = TRUE]] ELSE 0)]

\* Index: <Tabs> renders the content of the active tab only; choosing a tab
\* unmounts the manager shown and mounts the chosen one, whose mount effect
\* starts its first fetch.
SwitchTab(s, to) ==
  /\ tab[s] \notin {"auth", to}
  /\ to \in {"permissions", "roles", "assignments"}
  /\ tab' = [tab EXCEPT ![s] = to]
  /\ manager' = [manager EXCEPT ![s] = [k \in Kinds |-> ManagerInit]]
  /\ assignment' = [assignment EXCEPT ![s] = AssignmentInit]
  /\ tasks' = Orphaned(s) (+) SetToBag({MountTask(s, to)})
  /\ toast' = Quiet
  /\ UNCHANGED <<store>>

\* ------------------------------------- PermissionsManager and RolesManager
\* The two components are the same code over the tables permissions and roles;
\* k names the table.
Ids(rows) == {rows[i].id : i \in DOMAIN rows}
Mounted(s, k) == tab[s] = k /\ ~manager[s][k].loading
SetTable(k, tbl) ==
  /\ permissions' = IF k = "permissions" THEN tbl ELSE permissions
  /\ roles' = IF k = "roles" THEN tbl ELSE roles

\* fetchPermissions / fetchRoles: the select is executed by the store.
ExecSelectRows(t) ==
  /\ t.h = "fetchRows" /\ t.pc = "sent"
  /\ \E r \in {Failed, Ok(SelectAll(Table(t.k)))} :
       tasks' = Replace(t, [t EXCEPT !.pc = "resp", !.res = r])
  /\ toast' = Quiet
  /\ UNCHANGED <<store, tab, manager, assignment>>

\* A fetchPermissions that sets the list from the answer whatever it reports:
\* setRows(data || []) ahead of the error test.
FetchRowsDoneClearing(t) ==
  /\ t.h = "fetchRows" /\ t.pc = "resp"
  /\ toast' = IF t.res.error THEN Toast(t.s, "Error", "Failed to fetch") ELSE Quiet
  /\ manager' =
       IF ~t.live THEN manager
       ELSE [manager EXCEPT ![t.s][t.k].rows = t.res.data,
                            ![t.s][t.k].loading = FALSE]
  /\ tasks' = Finish(t)
  /\ UNCHANGED <<store, tab, assignment>>

\* fetchPermissions / fetchRoles after the await: setRows(data || []) or the
\* error toast, and finally setLoading(false).
FetchRowsDone(t) ==
  /\ t.h = "fetchRows" /\ t.pc = "resp"
  /\ toast' = IF t.res.error THEN Toast(t.s, "Error", "Failed to fetch") ELSE Quiet
  /\ manager' =
       IF ~t.live THEN manager
       ELSE [manager EXCEPT ![t.s][t.k].rows = IF t.res.error THEN @ ELSE t.res.data,
                            ![t.s][t.k].loading = FALSE]
  /\ tasks' = Finish(t)
  /\ UNCHANGED <<store, tab, assignment>>

\* openCreateDialog (the dialog is modal: its trigger is reachable only while
\* the dialog is closed).
OpenCreateDialog(s, k) ==
  /\ Mounted(s, k) /\ ~manager[s][k].isDialogOpen
  /\ manager' = [manager EXCEPT ![s][k].editing = Null, ![s][k].isDialogOpen = TRUE]
  /\ toast' = Quiet
  /\ UNCHANGED <<store, tab, assignment, tasks>>

\* openEditDialog(row), for a row of the rendered list.
OpenEditDialog(s, k, i) ==
  /\ Mounted(s, k) /\ ~manager[s][k].isDialogOpen
  /\ i \in DOMAIN manager[s][k].rows
  /\ manager' = [manager EXCEPT ![s][k].editing = manager[s][k].rows[i],
                                ![s][k].isDialogOpen = TRUE]
  /\ toast' = Quiet
  /\ UNCHANGED <<store, tab, assignment, tasks>>

\* <Dialog onOpenChange={setIsDialogOpen}>: dismissing the dialog.
CloseDialog(s, k) ==
  /\ Mounted(s, k) /\ manager[s][k].isDialogOpen
  /\ manager' = [manager EXCEPT ![s][k].isDialogOpen = FALSE]
  /\ toast' = Quiet
  /\ UNCHANGED <<store, tab, assignment, tasks>>

\* handleSubmit up to its await: the form's name (required) and description,
\* sent as an update of the row being edited or as an insert.
HandleSubmit(s, k, name, description) ==
  /\ Mounted(s, k) /\ manager[s][k].isDialogOpen
  /\ tasks' = Start(Task(s, "submit", k, "sent",
                 [id |-> manager[s][k].editing.id, name |-> name, description |-> description]))
  /\ toast' = Quiet
  /\ UNCHANGED <<store, tab, manager, assignment>>

\* The store executes the update or the insert of a handleSubmit.
ExecSubmitLost(t) ==
  /\ t.h = "submit" /\ t.pc = "sent"
  /\ tasks' = Replace(t, [t EXCEPT !.pc = "resp", !.res = Failed])
  /\ toast' = Quiet
  /\ UNCHANGED <<store, tab, manager, assignment>>

ExecUpdate(t) ==
  /\ t.h = "submit" /\ t.pc = "sent" /\ t.arg.id # Null.id
  /\ IF UpdateFails(Table(t.k), t.arg.id, t.arg.name)
     THEN /\ tasks' = Replace(t, [t EXCEPT !.pc = "resp", !.res = Failed])
          /\ UNCHANGED <<permissions, roles>>
     ELSE /\ tasks' = Replace(t, [t EXCEPT !.pc = "resp", !.res = Ok(<<>>)])
          /\ SetTable(t.k, UpdateRow(Table(t.k), t.arg.id, t.arg.name, t.arg.description))
  /\ toast' = Quiet
  /\ UNCHANGED <<role_permissions, user_roles, lastId, tab, manager, assignment>>

ExecInsert(t) ==
  /\ t.h = "submit" /\ t.pc = "sent" /\ t.arg.id = Null.id
  /\ IF InsertFails(Table(t.k), t.arg.name)
     THEN /\ tasks' = Replace(t, [t EXCEPT !.pc = "resp", !.res = Failed])
          /\ UNCHANGED <<permissions, roles, lastId>>
     ELSE /\ lastId[t.k] < MaxId(t.k)
          /\ tasks' = Replace(t, [t EXCEPT !.pc = "resp", !.res = Ok(<<>>)])
          /\ SetTable(t.k, InsertRow(Table(t.k), lastId[t.k] + 1, t.arg.name, t.arg.description))
          /\ lastId' = [lastId EXCEPT ![t.k] = @ + 1]
  /\ toast' = Quiet
  /\ UNCHANGED <<role_permissions, user_roles, tab, manager, assignment>>

\* A mutation's handler after its await: the error toast (catch), or the
\* success toast and the refetch.
Refetch(t) == [FetchRowsTask(t.s, t.k) EXCEPT !.live = t.live]

\* handleSubmit after its await.
SubmitDone(t) ==
  /\ t.h = "submit" /\ t.pc = "resp"
  /\ IF t.res.error
     THEN /\ toast' = Toast(t.s, "Error", "message")
          /\ tasks' = Finish(t)
          /\ UNCHANGED manager
     ELSE /\ toast' = Toast(t.s, "Success",
                        IF t.arg.id # Null.id THEN "updated" ELSE "created")
          /\ manager' = IF ~t.live THEN manager
                        ELSE [manager EXCEPT ![t.s][t.k].isDialogOpen = FALSE,
                                             ![t.s][t.k].editing = Null]
          /\ tasks' = Replace(t, Refetch(t))
  /\ UNCHANGED <<store, tab, assignment>>

\* A variant of handleDelete that sends the delete whatever confirm() returns.
HandleDeleteUnconfirmed(s, k, i) ==
  /\ Mounted(s, k) /\ ~manager[s][k].isDialogOpen
  /\ i \in DOMAIN manager[s][k].rows
  /\ tasks' = Start(Task(s, "delete", k, "sent", [id |-> manager[s][k].rows[i].id]))
  /\ toast' = Quiet
  /\ UNCHANGED <<store, tab, manager, assignment>>

\* handleDelete(id) for a row of the rendered list, up to its await: confirm()
\* declined returns at once.
HandleDeleteDeclined(s, k, i) ==
  /\ Mounted(s, k) /\ ~manager[s][k].isDialogOpen
  /\ i \in DOMAIN manager[s][k].rows
  /\ toast' = Quiet
  /\ UNCHANGED <<store, tab, manager, assignment, tasks>>

HandleDelete(s, k, i) ==
  /\ Mounted(s, k) /\ ~manager[s][k].isDialogOpen
  /\ i \in DOMAIN manager[s][k].rows
  /\ tasks' = Start(Task(s, "delete", k, "sent", [id |-> manager[s][k].rows[i].id]))
  /\ toast' = Quiet
  /\ UNCHANGED <<store, tab, manager, assignment>>

\* The store executes the delete of a handleDelete, with its cascades.
ExecDeleteLost(t) ==
  /\ t.h = "delete" /\ t.pc = "sent"
  /\ tasks' = Replace(t, [t EXCEPT !.pc = "resp", !.res = Failed])
  /\ toast' = Quiet
  /\ UNCHANGED <<store, tab, manager, assignment>>

ExecDelete(t) ==
  /\ t.h = "delete" /\ t.pc = "sent"
  /\ SetTable(t.k, DeleteRow(Table(t.k), t.arg.id))
  /\ role_permissions' = CascadeRolePermissions(t.k, t.arg.id)
  /\ user_roles' = CascadeUserRoles(t.k, t.arg.id)
  /\ tasks' = Replace(t, [t EXCEPT !.pc = "resp", !.res = Ok(<<>>)])
  /\ toast' = Quiet
  /\ UNCHANGED <<lastId, tab, manager, assignment>>

\* A variant of handleDelete that lacks the fetchPermissions() call.
DeleteDoneNoRefetch(t) ==
  /\ t.h = "delete" /\ t.pc = "resp"
  /\ toast' = Toast(t.s, IF t.res.error THEN "Error" ELSE "Success",
                          IF t.res.error THEN "message" ELSE "deleted")
  /\ tasks' = Finish(t)
  /\ UNCHANGED <<store, tab, manager, assignment>>

\* handleDelete after its await.
DeleteDone(t) ==
  /\ t.h = "delete" /\ t.pc = "resp"
  /\ IF t.res.error
     THEN /\ toast' = Toast(t.s, "Error", "message")
          /\ tasks' = Finish(t)
     ELSE /\ toast' = Toast(t.s, "Success", "deleted")
          /\ tasks' = Replace(t, Refetch(t))
  /\ UNCHANGED <<store, tab, manager, assignment>>

\* -------------------------------------------------- RolePermissionsManager
Assigning(s) == tab[s] = "assignments" /\ ~assignment[s].loading

\* The result of one of fetchData's three selects.
SelectOf(q) ==
  IF q = "role_permissions" THEN Ok(SelectRolePermissions) ELSE Ok(SelectAll(Table(q)))
NoData(q) == IF q = "role_permissions" THEN {} ELSE <<>>
FetchDataFailed(t) ==
  t.res.roles.error \/ t.res.permissions.error \/ t.res.role_permissions.error

\* fetchData: the store executes one of the three selects of the Promise.all,
\* in any order, or the request is lost; the await resumes once all three have
\* answered.  The data of a fetch one of whose selects failed is never read
\* (the throw precedes the three sets), so it is not kept.
Answered(t, q) == [t EXCEPT !.arg.pending = @ \ {q},
                            !.pc = IF t.arg.pending = {q} THEN "resp" ELSE "sent"]
ExecSelectDataLost(t, q) ==
  /\ t.h = "fetchData" /\ t.pc = "sent" /\ q \in t.arg.pending
  /\ tasks' = Replace(t, [Answered(t, q) EXCEPT
         !.res = [x \in DOMAIN t.res |-> [error |-> x = q \/ t.res[x].error, data |-> NoData(x)]]])
  /\ toast' = Quiet
  /\ UNCHANGED <<store, tab, manager, assignment>>

ExecSelectData(t, q) ==
  /\ t.h = "fetchData" /\ t.pc = "sent" /\ q \in t.arg.pending
  /\ tasks' = Replace(t, IF FetchDataFailed(t) THEN Answered(t, q)
                         ELSE [Answered(t, q) EXCEPT !.res[q] = SelectOf(q)])
  /\ toast' = Quiet
  /\ UNCHANGED <<store, tab, manager, assignment>>

\* A fetchData that sets the three lists from the three answers ahead of the
\* error tests.
FetchDataDonePartial(t) ==
  /\ t.h = "fetchData" /\ t.pc = "resp"
  /\ toast' = IF FetchDataFailed(t) THEN Toast(t.s, "Error", "Failed to fetch") ELSE Quiet
  /\ assignment' =
       IF ~t.live THEN assignment
       ELSE [assignment EXCEPT ![t.s].roles = t.res.roles.data,
                               ![t.s].permissions = t.res.permissions.data,
                               ![t.s].rolePermissions = t.res.role_permissions.data,
                               ![t.s].loading = FALSE]
  /\ tasks' = Finish(t)
  /\ UNCHANGED <<store, tab, manager>>

\* fetchData after the await: an error of any of the three throws before any
\* of the three lists is set; finally setLoading(false).
FetchDataDone(t) ==
  /\ t.h = "fetchData" /\ t.pc = "resp"
  /\ toast' = IF FetchDataFailed(t) THEN Toast(t.s, "Error", "Failed to fetch") ELSE Quiet
  /\ assignment' =
       IF ~t.live THEN assignment
       ELSE IF FetchDataFailed(t) THEN [assignment EXCEPT ![t.s].loading = FALSE]
       ELSE [assignment EXCEPT ![t.s].roles = t.res.roles.data,
                               ![t.s].permissions = t.res.permissions.data,
                               ![t.s].rolePermissions = t.res.role_permissions.data,
                               ![t.s].loading = FALSE]
  /\ tasks' = Finish(t)
  /\ UNCHANGED <<store, tab, manager>>

\* getRolePermissions(roleId): the rows of the in-memory list with that role.
getRolePermissions(s, roleId) ==
  {rp \in assignment[s].rolePermissions : rp.role_id = roleId}

\* A variant of openAssignDialog that only opens the dialog.
OpenAssignDialogKeeping(s) ==
  /\ Assigning(s) /\ ~assignment[s].isDialogOpen
  /\ assignment' = [assignment EXCEPT ![s].isDialogOpen = TRUE]
  /\ toast' = Quiet
  /\ UNCHANGED <<store, tab, manager, tasks>>

\* openAssignDialog (the dialog is modal: its trigger is reachable only while
\* the dialog is closed).
OpenAssignDialog(s) ==
  /\ Assigning(s) /\ ~assignment[s].isDialogOpen
  /\ assignment' = [assignment EXCEPT ![s].selectedRole = NoRole,
                                      ![s].selectedPermissions = <<>>,
                                      ![s].isDialogOpen = TRUE]
  /\ toast' = Quiet
  /\ UNCHANGED <<store, tab, manager, tasks>>

\* <Dialog onOpenChange={setIsDialogOpen}>: dismissing the dialog.
CloseAssignDialog(s) ==
  /\ Assigning(s) /\ assignment[s].isDialogOpen
  /\ assignment' = [assignment EXCEPT ![s].isDialogOpen = FALSE]
  /\ toast' = Quiet
  /\ UNCHANGED <<store, tab, manager, tasks>>

\* The orders a select without ORDER BY can return a set of rows in.
Orderings(S) ==
  {seq \in [1..Cardinality(S) -> S] : \A i, j \in 1..Cardinality(S) : i # j => seq[i] # seq[j]}

\* A variant of handleRoleSelect that does not pre-check anything.
ExistingPermissionsUnseeded(s, roleId) == {}

\* handleRoleSelect(roleId), for a role of the rendered <Select>.
ExistingPermissions(s, roleId) == {rp.permission_id : rp \in getRolePermissions(s, roleId)}
HandleRoleSelect(s, roleId) ==
  /\ Assigning(s) /\ assignment[s].isDialogOpen
  /\ roleId \in Ids(assignment[s].roles)
  /\ \E existingPermissions \in Orderings(ExistingPermissions(s, roleId)) :
       assignment' = [assignment EXCEPT ![s].selectedRole = roleId,
                                        ![s].selectedPermissions = existingPermissions]
  /\ toast' = Quiet
  /\ UNCHANGED <<store, tab, manager, tasks>>

\* A variant of handlePermissionToggle whose filter keeps every entry.
handlePermissionToggleKeeping(prev, permissionId, checked) ==
  IF checked THEN Append(prev, permissionId) ELSE prev

\* handlePermissionToggle(permissionId, checked) on the previous selection.
handlePermissionToggle(prev, permissionId, checked) ==
  IF checked THEN Append(prev, permissionId)
  ELSE LET Other(id) == id # permissionId IN SelectSeq(prev, Other)

\* A variant of the checkbox handler that writes the toggled selection through
\* to the store at once.
HandlePermissionToggleSaving(s, permissionId) ==
  /\ Assigning(s) /\ assignment[s].isDialogOpen
  /\ assignment[s].selectedRole # NoRole
  /\ permissionId \in Ids(assignment[s].permissions)
  /\ assignment' = [assignment EXCEPT ![s].selectedPermissions =
         handlePermissionToggle(@, permissionId, permissionId \notin Range(@))]
  /\ tasks' = Start(Task(s, "assign", "role_permissions", "delete_sent",
                 [role |-> assignment[s].selectedRole,
                  perms |-> assignment'[s].selectedPermissions,
                  deleted |-> FALSE]))
  /\ toast' = Quiet
  /\ UNCHANGED <<store, tab, manager>>

\* A checkbox of the rendered list, shown once a role is selected; it reports
\* the negation of what it shows: checked = selectedPermissions.includes(id).
HandlePermissionToggle(s, permissionId) ==
  /\ Assigning(s) /\ assignment[s].isDialogOpen
  /\ assignment[s].selectedRole # NoRole
  /\ permissionId \in Ids(assignment[s].permissions)
  /\ assignment' = [assignment EXCEPT ![s].selectedPermissions =
         handlePermissionToggle(@, permissionId, permissionId \notin Range(@))]
  /\ toast' = Quiet
  /\ UNCHANGED <<store, tab, manager, tasks>>

\* A variant of the validation that lacks the test of the selection's length.
AssignInvalidRoleOnly(s) == assignment[s].selectedRole = NoRole

\* handleAssignPermissions, the validation: no role or no permission selected.
AssignInvalid(s) ==
  assignment[s].selectedRole = NoRole \/ Len(assignment[s].selectedPermissions) = 0
HandleAssignRejected(s) ==
  /\ Assigning(s) /\ assignment[s].isDialogOpen
  /\ AssignInvalid(s)
  /\ toast' = Toast(s, "Error", "Please select")
  /\ UNCHANGED <<store, tab, manager, assignment, tasks>>

\* handleAssignPermissions up to its first await: the delete of the role's rows
\* is sent.
HandleAssignPermissions(s) ==
  /\ Assigning(s) /\ assignment[s].isDialogOpen
  /\ ~AssignInvalid(s)
  /\ tasks' = Start(Task(s, "assign", "role_permissions", "delete_sent",
                 [role |-> assignment[s].selectedRole,
                  perms |-> assignment[s].selectedPermissions,
                  deleted |-> FALSE]))
  /\ toast' = Quiet
  /\ UNCHANGED <<store, tab, manager, assignment>>

\* The store executes the delete of the role's rows, or the request is lost.
\* arg.deleted records that the delete was executed; the handler never reads it.
ExecAssignDeleteLost(t) ==
  /\ t.h = "assign" /\ t.pc = "delete_sent"
  /\ tasks' = Replace(t, [t EXCEPT !.pc = "delete_resp", !.res = Failed])
  /\ toast' = Quiet
  /\ UNCHANGED <<store, tab, manager, assignment>>

ExecAssignDelete(t) ==
  /\ t.h = "assign" /\ t.pc = "delete_sent"
  /\ role_permissions' = DeleteRolePermissionsOf(t.arg.role)
  /\ tasks' = Replace(t, [t EXCEPT !.pc = "delete_resp", !.res = Ok(<<>>),
                                     !.arg.deleted = TRUE])
  /\ toast' = Quiet
  /\ UNCHANGED <<permissions, roles, user_roles, lastId, tab, manager, assignment>>

\* handleAssignPermissions between its awaits: the delete's answer is dropped
\* and the insert of insertData is sent.
AssignSendInsert(t) ==
  /\ t.h = "assign" /\ t.pc = "delete_resp"
  /\ tasks' = Replace(t, [t EXCEPT !.pc = "insert_sent"])
  /\ toast' = Quiet
  /\ UNCHANGED <<store, tab, manager, assignment>>

\* The store executes the insert, or the request is lost.
ExecAssignInsertLost(t) ==
  /\ t.h = "assign" /\ t.pc = "insert_sent"
  /\ tasks' = Replace(t, [t EXCEPT !.pc = "insert_resp", !.res = Failed])
  /\ toast' = Quiet
  /\ UNCHANGED <<store, tab, manager, assignment>>

ExecAssignInsert(t) ==
  /\ t.h = "assign" /\ t.pc = "insert_sent"
  /\ IF InsertRolePermissionsFails(t.arg.role, t.arg.perms)
     THEN /\ tasks' = Replace(t, [t EXCEPT !.pc = "insert_resp", !.res = Failed])
          /\ UNCHANGED role_permissions
     ELSE /\ tasks' = Replace(t, [t EXCEPT !.pc = "insert_resp", !.res = Ok(<<>>)])
          /\ role_permissions' = InsertRolePermissions(t.arg.role, t.arg.perms)
  /\ toast' = Quiet
  /\ UNCHANGED <<permissions, roles, user_roles, lastId, tab, manager, assignment>>

\* A variant of handleAssignPermissions that closes and clears the dialog in a
\* finally block, whatever the insert's answer.
AssignDoneClosing(t) ==
  /\ t.h = "assign" /\ t.pc = "insert_resp"
  /\ toast' = IF t.res.error THEN Toast(t.s, "Error", "message")
              ELSE Toast(t.s, "Success", "assigned")
  /\ assignment' = IF ~t.live THEN assignment
                   ELSE [assignment EXCEPT ![t.s].isDialogOpen = FALSE,
                                           ![t.s].selectedRole = NoRole,
                                           ![t.s].selectedPermissions = <<>>]
  /\ tasks' = IF t.res.error THEN Finish(t)
              ELSE Replace(t, [FetchDataTask(t.s) EXCEPT !.live = t.live])
  /\ UNCHANGED <<store, tab, manager>>

\* handleAssignPermissions after the insert's await.
RefetchData(t) == [FetchDataTask(t.s) EXCEPT !.live = t.live]
AssignDone(t) ==
  /\ t.h = "assign" /\ t.pc = "insert_resp"
  /\ IF t.res.error
     THEN /\ toast' = Toast(t.s, "Error", "message")
          /\ tasks' = Finish(t)
          /\ UNCHANGED assignment
     ELSE /\ toast' = Toast(t.s, "Success", "assigned")
          /\ assignment' = IF ~t.live THEN assignment
                           ELSE [assignment EXCEPT ![t.s].isDialogOpen = FALSE,
                                                   ![t.s].selectedRole = NoRole,
                                                   ![t.s].selectedPermissions = <<>>]
          /\ tasks' = Replace(t, RefetchData(t))
  /\ UNCHANGED <<store, tab, manager>>

\* handleRemovePermission(rp.role_id, rp.permission_id) up to its await, for a
\* badge of the rendered list: a row of a role of the in-memory roles.
HandleRemovePermission(s, rp) ==
  /\ Assigning(s) /\ ~assignment[s].isDialogOpen
  /\ rp \in assignment[s].rolePermissions
  /\ rp.role_id \in Ids(assignment[s].roles)
  /\ tasks' = Start(Task(s, "remove", "role_permissions", "sent",
                 [role |-> rp.role_id, perm |-> rp.permission_id]))
  /\ toast' = Quiet
  /\ UNCHANGED <<store, tab, manager, assignment>>

ExecRemoveLost(t) ==
  /\ t.h = "remove" /\ t.pc = "sent"
  /\ tasks' = Replace(t, [t EXCEPT !.pc = "resp", !.res = Failed])
  /\ toast' = Quiet
  /\ UNCHANGED <<store, tab, manager, assignment>>

ExecRemove(t) ==
  /\ t.h = "remove" /\ t.pc = "sent"
  /\ role_permissions' = DeleteRolePermission(t.arg.role, t.arg.perm)
  /\ tasks' = Replace(t, [t EXCEPT !.pc = "resp", !.res = Ok(<<>>)])
  /\ toast' = Quiet
  /\ UNCHANGED <<permissions, roles, user_roles, lastId, tab, manager, assignment>>

\* handleRemovePermission after its await.
RemoveDone(t) ==
  /\ t.h = "remove" /\ t.pc = "resp"
  /\ IF t.res.error
     THEN /\ toast' = Toast(t.s, "Error", "message")
          /\ tasks' = Finish(t)
     ELSE /\ toast' = Toast(t.s, "Success", "removed")
          /\ tasks' = Replace(t, RefetchData(t))
  /\ UNCHANGED <<store, tab, manager, assignment>>

\* ---------------------------------------------------------- specifications
\* The migration's seed rows: distinct names.
SeedTable(n) == [id \in 1..n |-> [name |-> id, description |-> 1]]

\* The store after the migration, then with the seeded permissions and roles
\* not in keptPermissions and keptRoles deleted and with the junction rows rp
\* and ur.
InitStore(keptPermissions, keptRoles, rp, ur) ==
  /\ permissions = [id \in keptPermissions |-> SeedTable(SeedPermissions)[id]]
  /\ roles = [id \in keptRoles |-> SeedTable(SeedRoles)[id]]
  /\ role_permissions = rp
  /\ user_roles = ur
  /\ lastId = [k \in Kinds |-> IF k = "permissions" THEN SeedPermissions ELSE SeedRoles]

\* The sessions in `signedIn` signed in with the tab t just chosen (the tab's
\* manager mounted, its first fetch sent); the others signed out.
InitSession(signedIn, t) ==
  /\ tab = [s \in Sessions |-> IF s \in signedIn THEN t ELSE "auth"]
  /\ manager = [s \in Sessions |-> [k \in Kinds |-> ManagerInit]]
  /\ assignment = [s \in Sessions |-> AssignmentInit]
  /\ toast = Quiet
  /\ tasks = SetToBag({MountTask(s, t) : s \in signedIn})

\* The steps of the tasks of RolePermissionsManager.
Queries == {"roles", "permissions", "role_permissions"}
AssignmentTaskStep(t) ==
  \/ \E q \in Queries : ExecSelectDataLost(t, q)
  \/ \E q \in Queries : ExecSelectData(t, q)
  \/ FetchDataDone(t)
  \/ ExecAssignDeleteLost(t)
  \/ ExecAssignDelete(t)
  \/ AssignSendInsert(t)
  \/ ExecAssignInsertLost(t)
  \/ ExecAssignInsert(t)
  \/ AssignDone(t)
  \/ ExecRemoveLost(t)
  \/ ExecRemove(t)
  \/ RemoveDone(t)

\* What the administrator can do in RolePermissionsManager without a request...
AssignmentUiStep(s) ==
  \/ OpenAssignDialog(s)
  \/ CloseAssignDialog(s)
  \/ \E roleId \in RoleIds : HandleRoleSelect(s, roleId)
  \/ \E permissionId \in PermissionIds : HandlePermissionToggle(s, permissionId)
  \/ HandleAssignRejected(s)

\* ... and the handlers that send one.
AssignmentStart(s) ==
  \/ HandleAssignPermissions(s)
  \/ \E rp \in assignment[s].rolePermissions : HandleRemovePermission(s, rp)

\* One administrator in the Role Assignments tab, who waits for the answer of
\* each operation before starting the next.
InitAssign ==
  /\ InitStore(1..SeedPermissions, 1..SeedRoles, {}, {})
  /\ InitSession({1}, "assignments")
NextAssign ==
  \/ AssignmentUiStep(1)
  \/ ~Busy(1, MaxTasks) /\ AssignmentStart(1)
  \/ \E t \in InFlight : AssignmentTaskStep(t)
SpecAssign == InitAssign /\ [][NextAssign]_vars

\* Two administrators, each in the Role Assignments tab of a session of their
\* own and each waiting for the answers of their own operations, on a store
\* in which a single permission and a single role are left.
InitShared ==
  /\ InitStore({1}, {1}, {}, {})
  /\ InitSession(Sessions, "assignments")
NextShared ==
  \/ \E s \in Sessions : AssignmentUiStep(s)
  \/ \E s \in Sessions : ~Busy(s, MaxTasks) /\ AssignmentStart(s)
  \/ \E t \in InFlight : AssignmentTaskStep(t)
SpecShared == InitShared /\ [][NextShared]_vars

\* The steps of the tasks of PermissionsManager and RolesManager.
ManagerTaskStep(t) ==
  \/ ExecSelectRows(t)
  \/ FetchRowsDone(t)
  \/ ExecSubmitLost(t)
  \/ ExecUpdate(t)
  \/ ExecInsert(t)
  \/ SubmitDone(t)
  \/ ExecDeleteLost(t)
  \/ ExecDelete(t)
  \/ DeleteDone(t)

\* What the administrator can do in PermissionsManager or RolesManager without
\* a request...
ManagerUiStep(s, k) ==
  \/ OpenCreateDialog(s, k)
  \/ \E i \in 1..MaxId(k) : OpenEditDialog(s, k, i)
  \/ CloseDialog(s, k)
  \/ \E i \in 1..MaxId(k) : HandleDeleteDeclined(s, k, i)

\* ... and the handlers that send one.
ManagerStart(s, k) ==
  \/ \E name \in Names, description \in Descriptions : HandleSubmit(s, k, name, description)
  \/ \E i \in 1..MaxId(k) : HandleDelete(s, k, i)

\* The fetch of a mounted RolePermissionsManager.
FetchDataStep(t) ==
  \/ \E q \in Queries : ExecSelectDataLost(t, q)
  \/ \E q \in Queries : ExecSelectData(t, q)
  \/ FetchDataDone(t)

\* One administrator who edits permissions or roles and then looks at the Role
\* Assignments tab, without waiting for answers; every seeded role holds every
\* seeded permission and every user every seeded role.
AllRolePermissions == (1..SeedRoles) \X (1..SeedPermissions)
AllUserRoles == Users \X (1..SeedRoles)
InitCrud ==
  /\ InitStore(1..SeedPermissions, 1..SeedRoles, AllRolePermissions, AllUserRoles)
  /\ \E t \in Kinds : InitSession({1}, t)
NextCrud ==
  \/ \E k \in Kinds : ManagerUiStep(1, k)
  \/ ~Busy(1, MaxOverlap) /\ \E k \in Kinds : ManagerStart(1, k)
  \/ ~Busy(1, MaxOverlap) /\ SwitchTab(1, "assignments")
  \/ \E t \in InFlight : ManagerTaskStep(t) \/ FetchDataStep(t)
SpecCrud == InitCrud /\ [][NextCrud]_vars

\* One administrator who goes back and forth between the Permissions tab (the
\* tab Index opens with) and the Role Assignments tab and waits for the answer
\* of each operation before starting the next or changing the tab, on a store
\* in which a single role is left.
InitAll ==
  /\ InitStore(1..SeedPermissions, {1}, {}, {})
  /\ InitSession({1}, "permissions")
NextAll ==
  \/ ManagerUiStep(1, "permissions")
  \/ AssignmentUiStep(1)
  \/ ~Busy(1, MaxTasks) /\ ManagerStart(1, "permissions")
  \/ ~Busy(1, MaxTasks) /\ AssignmentStart(1)
  \/ ~Busy(1, MaxTasks) /\ \E to \in {"permissions", "assignments"} : SwitchTab(1, to)
  \/ \E t \in InFlight : ManagerTaskStep(t) \/ AssignmentTaskStep(t)
SpecAll == InitAll /\ [][NextAll]_vars

\* Every session signed in with the tab tabs[s] just chosen.
InitSessions(tabs) ==
  /\ tab = tabs
  /\ manager = [s \in Sessions |-> [k \in Kinds |-> ManagerInit]]
  /\ assignment = [s \in Sessions |-> AssignmentInit]
  /\ toast = Quiet
  /\ tasks = SetToBag({MountTask(s, tabs[s]) : s \in Sessions})

\* The steps of the list and delete tasks of PermissionsManager / RolesManager.
DeleteTaskStep(t) ==
  \/ ExecSelectRows(t)
  \/ FetchRowsDone(t)
  \/ ExecDeleteLost(t)
  \/ ExecDelete(t)
  \/ DeleteDone(t)

\* Two administrators: the first works in the Role Assignments tab, the second
\* deletes permissions or roles in the tab of PermissionsManager or RolesManager;
\* each waits for the answers of their own operations; a single role is left.
InitStale ==
  /\ InitStore(1..SeedPermissions, {1}, {}, {})
  /\ \E k \in Kinds : InitSessions([s \in Sessions |-> IF s = 1 THEN "assignments" ELSE k])
NextStale ==
  \/ AssignmentUiStep(1)
  \/ ~Busy(1, MaxTasks) /\ AssignmentStart(1)
  \/ ~Busy(2, MaxTasks) /\ \E k \in Kinds : \E i \in 1..MaxId(k) : HandleDelete(2, k, i)
  \/ \E t \in InFlight : AssignmentTaskStep(t) \/ DeleteTaskStep(t)
SpecStale == InitStale /\ [][NextStale]_vars

\* The steps of handleAssignPermissions on a network that loses no request.
CommitTaskStep(t) ==
  \/ ExecAssignDelete(t)
  \/ AssignSendInsert(t)
  \/ ExecAssignInsert(t)
  \/ AssignDone(t)

\* RolePermissionsManager once its fetchData on mount has set the three lists.
Loaded ==
  [AssignmentInit EXCEPT !.roles = SelectAll(roles),
                         !.permissions = SelectAll(permissions),
                         !.rolePermissions = SelectRolePermissions,
                         !.loading = FALSE]

\* Two administrators, each in the Role Assignments tab of a session of their
\* own with the lists loaded, who assign permissions to the seeded roles until
\* a commit of theirs succeeds (the answer of the refresh it starts is not
\* awaited); no request is lost.
InitRace ==
  /\ InitStore(1..SeedPermissions, 1..SeedRoles, {}, {})
  /\ tab = [s \in Sessions |-> "assignments"]
  /\ manager = [s \in Sessions |-> [k \in Kinds |-> ManagerInit]]
  /\ assignment = [s \in Sessions |-> Loaded]
  /\ toast = Quiet
  /\ tasks = EmptyBag
NextRace ==
  \/ \E s \in Sessions : AssignmentUiStep(s)
  \/ \E s \in Sessions : ~Busy(s, MaxTasks) /\ HandleAssignPermissions(s)
  \/ \E t \in InFlight : CommitTaskStep(t)
SpecRace == InitRace /\ [][NextRace]_vars

\* -------------------------------------------------------------- properties
\* The permission ids the rows `rows` of role_permissions give a role.
PermissionsOf(rows, roleId) == {rp[2] : rp \in {x \in rows : x[1] = roleId}}
\* permissionsFor(roleId): the permission ids session s shows for a role.
permissionsFor(s, roleId) ==
  {rp.permission_id : rp \in {x \in assignment[s].rolePermissions : x.role_id = roleId}}
\* The pending selection of session s: the role and the checked permissions.
Pending(s) == <<assignment[s].selectedRole, assignment[s].selectedPermissions>>
ErrorToast(description) == [title |-> "Error", description |-> description]

\* C1: once both requests of a commit(r, S) have been answered and the insert's
\* answer reports no error (the commit reports success and starts the refresh),
\* the rows of r in role_permissions, which the refresh reads, are exactly S.
C1_CommitReplaces ==
  \A t \in InFlight :
    t.h = "assign" /\ t.pc = "insert_resp" /\ ~t.res.error
      => PermissionsOf(role_permissions, t.arg.role) = Range(t.arg.perms)

\* C2 as stated: the step in which the insert of a commit(r, S) fails, after
\* the commit's delete was executed, leaves role_permissions without a row of r.
C2_FailedInsertLeavesEmpty ==
  [][\A t \in InFlight :
       (/\ t.h = "assign" /\ t.pc = "insert_sent" /\ t.arg.deleted
        /\ tasks' = Replace(t, [t EXCEPT !.pc = "insert_resp", !.res = Failed]))
         => PermissionsOf(role_permissions', t.arg.role) = {}
    ]_vars

\* C2: the delete of a commit(r, S) leaves r without rows; an insert that
\* fails changes no row (nothing is restored, nothing is inserted); the handler
\* that observes the failure raises the error notification and changes no row;
\* and a role without rows gets rows again only by the successful insert of a
\* commit for it, which gives it exactly that commit's selection.
C2_NoRollback ==
  [][/\ \A t \in InFlight :
          /\ (/\ t.h = "assign" /\ t.pc = "delete_sent"
              /\ tasks' = Replace(t, [t EXCEPT !.pc = "delete_resp", !.res = Ok(<<>>),
                                               !.arg.deleted = TRUE]))
               => PermissionsOf(role_permissions', t.arg.role) = {}
          /\ (/\ t.h = "assign" /\ t.pc = "insert_sent"
              /\ tasks' = Replace(t, [t EXCEPT !.pc = "insert_resp", !.res = Failed]))
               => role_permissions' = role_permissions
          /\ (/\ t.h = "assign" /\ t.pc = "insert_resp" /\ t.res.error
              /\ tasks' = Finish(t))
               => /\ toast'[t.s] = ErrorToast("message")
                  /\ role_permissions' = role_permissions
     /\ \A r \in RoleIds :
          PermissionsOf(role_permissions, r) = {} /\ PermissionsOf(role_permissions', r) # {}
            => \E t \in InFlight :
                 /\ t.h = "assign" /\ t.pc = "insert_sent" /\ t.arg.role = r
                 /\ tasks' = Replace(t, [t EXCEPT !.pc = "insert_resp", !.res = Ok(<<>>)])
                 /\ PermissionsOf(role_permissions', r) = Range(t.arg.perms)
    ]_vars

\* C2's case: the insert of a commit has failed after its delete was executed,
\* the role is left without rows, and the committing session still shows the
\* permissions the role held before.
C2_Witness ==
  \E t \in InFlight :
    /\ t.h = "assign" /\ t.pc = "insert_resp" /\ t.res.error /\ t.arg.deleted
    /\ PermissionsOf(role_permissions, t.arg.role) = {}
    /\ permissionsFor(t.s, t.arg.role) # {}

\* C3: no delete or insert is ever sent for a commit without a role or without
\* a checked permission, and the step that raises the validation error changes
\* neither the store nor the manager's state (the dialog stays as it is) nor
\* the requests in flight.
C3_InvalidCommitRejected ==
  [][/\ \A t \in InFlight' :
          t.h = "assign" => t.arg.role # NoRole /\ Len(t.arg.perms) > 0
     /\ \A s \in Sessions :
          toast'[s] = ErrorToast("Please select")
            => /\ assignment[s].isDialogOpen
               /\ assignment[s].selectedRole = NoRole
                    \/ assignment[s].selectedPermissions = <<>>
               /\ UNCHANGED <<store, assignment, tasks>>
    ]_vars

\* C3's case: a commit was rejected while a role was selected and every
\* checkbox cleared; the dialog is still open and nothing is in flight.
C3_Witness ==
  /\ toast[1] = ErrorToast("Please select")
  /\ assignment[1].isDialogOpen
  /\ assignment[1].selectedRole # NoRole
  /\ assignment[1].selectedPermissions = <<>>
  /\ permissionsFor(1, assignment[1].selectedRole) # {}
  /\ InFlight = {}

\* C7 as stated: handleRoleSelect(r) sets the pending selection to exactly the
\* permission ids of the rows role_permissions holds for r.
C7_SeedsPersisted ==
  [][\A s \in Sessions, r \in RoleIds :
       HandleRoleSelect(s, r)
         => Range(assignment'[s].selectedPermissions) = PermissionsOf(role_permissions, r)
    ]_vars

\* C7: handleRoleSelect(r) selects r and sets the pending selection to exactly
\* the permission ids of the rows the manager's in-memory junction list (the
\* rows of its last successful fetch) holds for r, each once: every permission
\* shown for r is pre-checked and nothing else is.
C7_SeedsInMemory ==
  [][\A s \in Sessions, r \in RoleIds :
       HandleRoleSelect(s, r)
         => /\ assignment'[s].selectedRole = r
            /\ Range(assignment'[s].selectedPermissions) = permissionsFor(s, r)
            /\ ~HasDuplicates(assignment'[s].selectedPermissions)
    ]_vars

\* C7's case: a role that holds a permission another role does not hold has
\* just been selected, and its permission is the pending selection.
C7_Witness ==
  \E r \in RoleIds :
    /\ assignment[1].isDialogOpen
    /\ assignment[1].selectedRole = r
    /\ permissionsFor(1, r) # {}
    /\ Range(assignment[1].selectedPermissions) = permissionsFor(1, r)
    /\ \E other \in RoleIds \ {r} :
         /\ permissionsFor(1, other) # {}
         /\ permissionsFor(1, other) \cap permissionsFor(1, r) = {}

\* C8: a step that changes the pending selection of a dialog that is and stays
\* open (a role select or a checkbox toggle) sends no request and changes no
\* table; and a row of role_permissions changes only in a step in which the
\* store executes a request of a commit or of a removal.
C8_SelectionIsLocal ==
  [][/\ \A s \in Sessions :
          (/\ assignment[s].isDialogOpen /\ assignment'[s].isDialogOpen
           /\ <<assignment'[s].selectedRole, assignment'[s].selectedPermissions>> # Pending(s))
            => UNCHANGED <<store, tasks>>
     /\ role_permissions' # role_permissions
          => \E t \in InFlight :
               /\ t.h \in {"assign", "remove"}
               /\ t.pc \in {"delete_sent", "insert_sent", "sent"}
               /\ \E u \in InFlight' :
                    /\ u.h = t.h /\ u.arg.role = t.arg.role /\ ~u.res.error
                    /\ u.pc \in {"delete_resp", "insert_resp", "resp"}
                    /\ tasks' = Replace(t, u)
    ]_vars

\* C8's case: with nothing in flight, the dialog shows for the selected role a
\* selection that differs from the rows the store holds for it.
C8_Witness ==
  /\ InFlight = {}
  /\ assignment[1].isDialogOpen
  /\ assignment[1].selectedRole # NoRole
  /\ PermissionsOf(role_permissions, assignment[1].selectedRole) # {}
  /\ assignment[1].selectedPermissions # <<>>
  /\ Range(assignment[1].selectedPermissions)
       # PermissionsOf(role_permissions, assignment[1].selectedRole)

\* C9: the store's execution of handleRemovePermission(r, p) removes the row
\* <<r, p>> of role_permissions and changes nothing else in the store; the
\* removal is sent for a row of the in-memory list, and neither sending it nor
\* any later step of it changes the pending selection.
C9_RemovesOneRow ==
  [][/\ \A t \in InFlight :
          t.h = "remove" =>
            /\ (/\ t.pc = "sent"
                /\ tasks' = Replace(t, [t EXCEPT !.pc = "resp", !.res = Ok(<<>>)]))
                 => /\ role_permissions' = role_permissions \ {<<t.arg.role, t.arg.perm>>}
                    /\ UNCHANGED <<permissions, roles, user_roles, lastId>>
            /\ (t \notin InFlight' /\ tab' = tab)
                 => <<assignment'[t.s].selectedRole, assignment'[t.s].selectedPermissions>>
                      = Pending(t.s)
     /\ \A t \in InFlight' \ InFlight :
          (t.h = "remove" /\ t.pc = "sent")
            => /\ <<assignment'[t.s].selectedRole, assignment'[t.s].selectedPermissions>>
                    = Pending(t.s)
               /\ t.arg.perm \in permissionsFor(t.s, t.arg.role)
               /\ UNCHANGED store
    ]_vars

\* C9's case: a removal has been executed for a role that keeps another row
\* and while another role holds the removed permission, with a selection
\* pending in the closed dialog.
C9_Witness ==
  \E t \in InFlight :
    /\ t.h = "remove" /\ t.pc = "resp" /\ ~t.res.error
    /\ <<t.arg.role, t.arg.perm>> \notin role_permissions
    /\ PermissionsOf(role_permissions, t.arg.role) # {}
    /\ \E other \in RoleIds \ {t.arg.role} : <<other, t.arg.perm>> \in role_permissions
    /\ assignment[t.s].selectedPermissions # <<>>

\* The step answers the request task t has in flight with res.
Answers(t, res) == tasks' = Replace(t, [t EXCEPT !.pc = "resp", !.res = res])
Replied(t) == Answers(t, Failed) \/ Answers(t, Ok(<<>>))
\* Some row of tbl other than row id holds the name.
NameHeld(tbl, id, name) == \E x \in DOMAIN tbl : x # id /\ tbl[x].name = name

\* C4: a create whose name a row of the table holds, and an update of an
\* existing row to a name another row holds, are answered with an error and
\* change nothing in the store; the handler that observes the error raises the
\* error notification.
C4_DuplicateNameRejected ==
  [][\A t \in InFlight :
       t.h = "submit" =>
         /\ (/\ t.pc = "sent" /\ Replied(t)
             /\ \/ t.arg.id = Null.id /\ NameHeld(Table(t.k), Null.id, t.arg.name)
                \/ t.arg.id \in DOMAIN Table(t.k) /\ NameHeld(Table(t.k), t.arg.id, t.arg.name))
              => Answers(t, Failed) /\ UNCHANGED store
         /\ (t.pc = "resp" /\ t.res.error /\ tasks' = Finish(t))
              => toast'[t.s] = ErrorToast("message") /\ UNCHANGED store
    ]_vars

\* C4's case: a create with the name of an existing row and a rename of a row
\* to the name of another row have both been answered with an error.
C4_Witness ==
  \E t, u \in InFlight :
    /\ t.h = "submit" /\ t.pc = "resp" /\ t.res.error
    /\ t.arg.id = Null.id /\ NameHeld(Table(t.k), Null.id, t.arg.name)
    /\ u.h = "submit" /\ u.pc = "resp" /\ u.res.error
    /\ u.arg.id \in DOMAIN Table(u.k) /\ NameHeld(Table(u.k), u.arg.id, u.arg.name)

\* C5: a step in which a role r leaves the table roles is the store's
\* execution of a RolesManager delete of r, and it removes exactly the rows of
\* role_permissions and of user_roles that reference r: the rows of other
\* roles, the other roles and the permissions stay as they are.
C5_RoleDeleteCascades ==
  [][\A r \in DOMAIN roles :
       r \notin DOMAIN roles'
         => /\ \E t \in InFlight :
                 /\ t.h = "delete" /\ t.k = "roles" /\ t.arg.id = r /\ t.pc = "sent"
                 /\ Answers(t, Ok(<<>>))
            /\ roles' = [x \in DOMAIN roles \ {r} |-> roles[x]]
            /\ role_permissions' = {rp \in role_permissions : rp[1] # r}
            /\ user_roles' = {ur \in user_roles : ur[2] # r}
            /\ UNCHANGED permissions
    ]_vars

\* C5's case: a role that held permissions and users has been deleted, no row
\* references it, and another role keeps its permissions and its users.
C5_Witness ==
  \E r \in 1..SeedRoles :
    /\ r \notin DOMAIN roles
    /\ PermissionsOf(role_permissions, r) = {}
    /\ \A ur \in user_roles : ur[2] # r
    /\ \E other \in DOMAIN roles :
         /\ PermissionsOf(role_permissions, other) = 1..SeedPermissions
         /\ \E ur \in user_roles : ur[2] = other

\* C6 as stated: once a permission p has been deleted, no row of
\* role_permissions references p and no session shows p for any role.
C6_DeletedPermissionNowhere ==
  \A p \in PermissionIds :
    (p <= lastId["permissions"] /\ p \notin DOMAIN permissions)
      => /\ \A rp \in role_permissions : rp[2] # p
         /\ \A s \in Sessions, r \in RoleIds : p \notin permissionsFor(s, r)

\* C6: a step in which a permission p leaves the table permissions removes
\* exactly the rows of role_permissions that reference p and leaves the roles
\* and user_roles as they are; no row of role_permissions references a missing
\* permission; a role_permissions select the store answers returns exactly the
\* rows the table holds then; and a fetch all of whose selects succeeded
\* installs the returned rows as the list permissionsFor reads.  So no session
\* shows p once its list comes from a select executed after the deletion.
C6_PermissionDeleteCascades ==
  [][/\ \A p \in DOMAIN permissions :
          p \notin DOMAIN permissions'
            => /\ role_permissions' = {rp \in role_permissions : rp[2] # p}
               /\ UNCHANGED <<roles, user_roles>>
     /\ \A rp \in role_permissions' : rp[2] \in DOMAIN permissions'
     /\ \A t \in InFlight :
          t.h = "fetchData" =>
            /\ \A u \in InFlight' :
                 (/\ t.pc = "sent" /\ "role_permissions" \in t.arg.pending
                  /\ u.h = "fetchData" /\ u.arg.pending = t.arg.pending \ {"role_permissions"}
                  /\ tasks' = Replace(t, u) /\ ~FetchDataFailed(u))
                   => {<<rp.role_id, rp.permission_id>> : rp \in u.res.role_permissions.data}
                        = role_permissions
            /\ (/\ t.pc = "resp" /\ t.live /\ ~FetchDataFailed(t)
                /\ tasks' = Finish(t))
                 => assignment'[t.s].rolePermissions = t.res.role_permissions.data
    ]_vars

\* C6's case: a seeded permission that roles held has been deleted and the
\* Role Assignments tab, loaded since, shows the roles with their other
\* permission only.
C6_Witness ==
  \E p \in 1..SeedPermissions :
    /\ p \notin DOMAIN permissions
    /\ tab[1] = "assignments" /\ ~assignment[1].loading
    /\ \A rp \in role_permissions : rp[2] # p
    /\ \E r \in Ids(assignment[1].roles) :
         /\ permissionsFor(1, r) # {}
         /\ permissionsFor(1, r) = (1..SeedPermissions) \ {p}
         /\ permissionsFor(1, r) = PermissionsOf(role_permissions, r)

\* C10: an update whose id matches no row of the table changes nothing in the
\* store, whether its request reaches the store or is lost; the store answers
\* it without an error, and the handler that observes that answer raises the
\* success notification.
C10_UpdateOfMissingRow ==
  [][\A t \in InFlight :
       (t.h = "submit" /\ t.arg.id # Null.id) =>
         /\ (t.pc = "sent" /\ t.arg.id \notin DOMAIN Table(t.k))
              => /\ Replied(t) => UNCHANGED store
                 /\ ExecUpdate(t) => Answers(t, Ok(<<>>))
         /\ (/\ t.pc = "resp" /\ ~t.res.error
             /\ \E u \in InFlight' : u.h = "fetchRows" /\ tasks' = Replace(t, u))
              => toast'[t.s] = [title |-> "Success", description |-> "updated"]
    ]_vars

\* C10's case: the update of a row that is no longer in the table has been
\* answered without an error.
C10_Witness ==
  \E t \in InFlight :
    /\ t.h = "submit" /\ t.pc = "resp" /\ ~t.res.error
    /\ t.arg.id # Null.id /\ t.arg.id \notin DOMAIN Table(t.k)
    /\ t.arg.id <= lastId[t.k]

\* C11: a click on a row's delete button whose confirm() is declined sends no
\* request and changes neither the store nor the manager's list; a delete
\* request comes into flight only by the accepted click on a listed row, which
\* itself changes no table; and a row leaves permissions or roles only when
\* the store executes such a request.
C11_DeleteNeedsConfirmation ==
  [][/\ \A s \in Sessions, k \in Kinds : \A i \in 1..MaxId(k) :
          HandleDeleteDeclined(s, k, i) => UNCHANGED <<store, manager, tasks>>
     /\ \A t \in InFlight' :
          (t.h = "delete" /\ t.pc = "sent" /\ tasks' = Start(t))
            => /\ \E i \in 1..MaxId(t.k) : HandleDelete(t.s, t.k, i)
               /\ t.arg.id \in Ids(manager[t.s][t.k].rows)
               /\ UNCHANGED <<store, manager>>
     /\ \A k \in Kinds : \A id \in DOMAIN Table(k) :
          id \notin DOMAIN Table(k)'
            => \E t \in InFlight :
                 /\ t.h = "delete" /\ t.k = k /\ t.arg.id = id /\ t.pc = "sent"
                 /\ Answers(t, Ok(<<>>))
    ]_vars

\* C11's case: an accepted delete of a listed row is in flight and the row is
\* still in the table, while another listed row, whose delete was not
\* accepted, is in the table too.
C11_Witness ==
  \E t \in InFlight :
    /\ t.h = "delete" /\ t.pc = "sent" /\ t.live
    /\ t.arg.id \in DOMAIN Table(t.k)
    /\ t.arg.id \in Ids(manager[t.s][t.k].rows)
    /\ \E other \in Ids(manager[t.s][t.k].rows) \ {t.arg.id} : other \in DOMAIN Table(t.k)
    /\ BagCardinality(tasks) = 1

\* A mutation handler whose last request has been answered, and the first
\* step of a fetch of the list of the handler's manager.
MutationAnswered(t) ==
  \/ t.h \in {"submit", "delete", "remove"} /\ t.pc = "resp"
  \/ t.h = "assign" /\ t.pc = "insert_resp"
FetchOf(t, u) ==
  /\ u.s = t.s /\ u.pc = "sent"
  /\ IF t.h \in {"assign", "remove"}
     THEN u.h = "fetchData" /\ u.arg.pending = Queries
     ELSE u.h = "fetchRows" /\ u.k = t.k /\ u.res = None
\* The step puts one more copy of u in flight.
Sent(u) == CopiesIn(u, tasks') > CopiesIn(u, tasks)
\* The handler of t runs on from its answer in this step.
Resumes(t) == tasks' = Finish(t) \/ \E u \in InFlight' : u # t /\ tasks' = Replace(t, u)

\* C12 as stated: every mutation handler that observes its answer sends the
\* fetch of its manager's list.
C12_EveryMutationRefetches ==
  [][\A t \in InFlight :
       (MutationAnswered(t) /\ Resumes(t))
         => \E u \in InFlight' : FetchOf(t, u) /\ tasks' = Replace(t, u)
    ]_vars

\* C12: a mutation handler that observes an answer without error sends the
\* fetch of its manager's list in that step, and one that observes an error
\* sends nothing; in a step that leaves the tab as it is, a fetch is sent only
\* by such a handler, and the insert of a commit only by the commit that
\* observes its delete's answer.
C12_RefetchAfterAnswer ==
  [][/\ \A t \in InFlight :
          (MutationAnswered(t) /\ Resumes(t))
            => IF t.res.error THEN tasks' = Finish(t)
               ELSE \E u \in InFlight' : FetchOf(t, u) /\ tasks' = Replace(t, u)
     /\ \A u \in InFlight' :
          /\ (/\ u.h \in {"fetchRows", "fetchData"} /\ u.pc = "sent" /\ Sent(u)
              /\ u.h = "fetchData" => u.arg.pending = Queries
              /\ tab' = tab)
               => \E t \in InFlight :
                    /\ MutationAnswered(t) /\ ~t.res.error
                    /\ FetchOf(t, u) /\ tasks' = Replace(t, u)
          /\ (u.h = "assign" /\ u.pc = "insert_sent" /\ Sent(u) /\ tab' = tab)
               => \E t \in InFlight :
                    /\ t.h = "assign" /\ t.pc = "delete_resp"
                    /\ tasks' = Replace(t, [t EXCEPT !.pc = "insert_sent"])
                    /\ u = [t EXCEPT !.pc = "insert_sent"]
    ]_vars

\* C12's case: a handler has just reported the success of its mutation and
\* the fetch it sent is in flight, with the list still as it was before.
C12_Witness ==
  /\ toast[1].title = "Success"
  /\ \E u \in InFlight : u.h = "fetchData" /\ u.pc = "sent" /\ u.arg.pending = Queries
  /\ \E r \in RoleIds : permissionsFor(1, r) # PermissionsOf(role_permissions, r)

\* The step of fetchPermissions / fetchRoles that observes a failed select.
FetchRowsFails(t) ==
  t.h = "fetchRows" /\ t.pc = "resp" /\ t.res.error /\ tasks' = Finish(t)

\* C13: the step that observes a failed list() raises the error notification
\* "Failed to fetch" and nothing else, leaves the store, the tab, the dialog
\* and the list as they were (the list is empty if this was the load on mount)
\* and, if its manager is still mounted, ends the loading state.
C13_FailedListKeepsList ==
  [][\A t \in InFlight :
       FetchRowsFails(t)
         => /\ toast' = Toast(t.s, "Error", "Failed to fetch")
            /\ manager'[t.s][t.k].rows = manager[t.s][t.k].rows
            /\ manager[t.s][t.k].loading => manager'[t.s][t.k].rows = <<>>
            /\ t.live => ~manager'[t.s][t.k].loading
            /\ manager'[t.s][t.k].isDialogOpen = manager[t.s][t.k].isDialogOpen
            /\ manager'[t.s][t.k].editing = manager[t.s][t.k].editing
            /\ UNCHANGED <<store, tab, assignment>>
    ]_vars

\* C13's case: the refetch after a mutation failed: the error is shown, the
\* manager is not loading, and the list is the non-empty list of before the
\* mutation.
C13_Witness ==
  \E k \in Kinds :
    /\ tab[1] = k /\ toast[1] = ErrorToast("Failed to fetch")
    /\ ~manager[1][k].loading
    /\ manager[1][k].rows # <<>>
    /\ manager[1][k].rows # SelectAll(Table(k))
    /\ BagCardinality(tasks) = 0

\* C13 as stated: after a failed list() the in-memory list is empty.
C13_FailedListLeavesEmpty ==
  [][\A t \in InFlight :
       FetchRowsFails(t) => manager'[t.s][t.k].rows = <<>>]_vars

\* The three in-memory collections of the assignment manager of session s.
Collections(s) ==
  <<assignment[s].roles, assignment[s].permissions, assignment[s].rolePermissions>>

\* C14: the step of fetchData that finds an error in any of the three answers
\* raises the one notification "Failed to fetch", leaves the three collections
\* and the store as they were and ends the loading state; and a step that
\* changes a collection of a manager that stays mounted is the end of a
\* fetchData whose three selects all succeeded, and sets all three collections
\* from that fetch.
C14_FailedFetchDataUpdatesNothing ==
  [][/\ \A t \in InFlight :
          (t.h = "fetchData" /\ t.pc = "resp" /\ FetchDataFailed(t) /\ tasks' = Finish(t))
            => /\ toast' = Toast(t.s, "Error", "Failed to fetch")
               /\ Collections(t.s)' = Collections(t.s)
               /\ t.live => ~assignment'[t.s].loading
               /\ UNCHANGED <<store, tab>>
     /\ \A s \in Sessions :
          (Collections(s)' # Collections(s) /\ tab' = tab)
            => \E t \in InFlight :
                 /\ t.s = s /\ t.h = "fetchData" /\ t.pc = "resp" /\ tasks' = Finish(t)
                 /\ ~FetchDataFailed(t)
                 /\ Collections(s)' = <<t.res.roles.data, t.res.permissions.data,
                                        t.res.role_permissions.data>>
    ]_vars

\* C14's case: the refresh after a commit failed: the error is shown and the
\* collections are those of the fetch before the commit, which no longer agree
\* with the store.
C14_Witness ==
  /\ toast[1] = ErrorToast("Failed to fetch")
  /\ ~assignment[1].loading
  /\ assignment[1].roles # <<>> /\ assignment[1].permissions # <<>>
  /\ \E r \in RoleIds : permissionsFor(1, r) # PermissionsOf(role_permissions, r)
  /\ BagCardinality(tasks) = 0

\* C15: in every state of the store the rows of permissions have pairwise
\* distinct names, and so have the rows of roles.
C15_NamesDistinct ==
  \A k \in Kinds : \A x, y \in DOMAIN Table(k) :
    x # y => Table(k)[x].name # Table(k)[y].name

\* C15's case: two creates of the same name were in flight together; the store
\* has executed both, accepting the first and rejecting the second.
C15_Witness ==
  \E t, u \in InFlight :
    /\ t.h = "submit" /\ u.h = "submit" /\ t.k = u.k
    /\ t.arg.id = Null.id /\ u.arg.id = Null.id /\ t.arg.name = u.arg.name
    /\ t.pc = "resp" /\ ~t.res.error
    /\ u.pc = "resp" /\ u.res.error
    /\ \E x \in DOMAIN Table(t.k) :
         x \notin DOMAIN SeedTable(IF t.k = "roles" THEN SeedRoles ELSE SeedPermissions) /\ Table(t.k)[x].name = t.arg.name

\* Every row of role_permissions references a row of roles and a row of
\* permissions.
ReferencesExist ==
  \A rp \in role_permissions : rp[1] \in DOMAIN roles /\ rp[2] \in DOMAIN permissions

\* C16: in every state of the store every row of role_permissions references
\* an existing role and an existing permission; and rows enter role_permissions
\* only by the insert of a commit that the store accepts, which it does only if
\* the rows sent are pairwise distinct, none of them is in the table, and their
\* role and permissions exist at that moment, whatever the list the selection
\* was built from.
C16_RolePermissionsSound ==
  /\ ReferencesExist
  /\ [][/\ ReferencesExist'
        /\ \A t \in InFlight :
             (/\ t.h = "assign" /\ t.pc = "insert_sent"
              /\ tasks' = Replace(t, [t EXCEPT !.pc = "insert_resp", !.res = Ok(<<>>)]))
               => /\ ~HasDuplicates(t.arg.perms)
                  /\ \A p \in Range(t.arg.perms) : <<t.arg.role, p>> \notin role_permissions
                  /\ t.arg.role \in DOMAIN roles
                  /\ Range(t.arg.perms) \subseteq DOMAIN permissions
        /\ ~(role_permissions' \subseteq role_permissions)
             => \E t \in InFlight :
                  /\ t.h = "assign" /\ t.pc = "insert_sent"
                  /\ tasks' = Replace(t, [t EXCEPT !.pc = "insert_resp", !.res = Ok(<<>>)])
                  /\ role_permissions' = role_permissions \cup ({t.arg.role} \X Range(t.arg.perms))
       ]_vars

\* C16's case: a commit whose selection holds a permission that the in-memory
\* list still shows and another session has deleted meanwhile; the store has
\* answered its insert with an error.
C16_Witness ==
  \E t \in InFlight :
    /\ t.h = "assign" /\ t.pc = "insert_resp" /\ t.res.error /\ t.arg.deleted
    /\ t.arg.role \in DOMAIN roles
    /\ \E p \in Range(t.arg.perms) :
         p \notin DOMAIN permissions /\ p \in Ids(assignment[t.s].permissions)
    /\ \E p \in Range(t.arg.perms) : p \in DOMAIN permissions

\* A mutation of a mounted manager whose response (for a commit: the response
\* of its insert) the handler has not received yet.
Unanswered(t) ==
  /\ t.live
  /\ \/ t.h \in {"submit", "delete", "remove"} /\ t.pc = "sent"
     \/ t.h = "assign" /\ t.pc \in {"delete_sent", "delete_resp", "insert_sent"}

\* C17: in every state each session has at most one create, update, delete,
\* commit or removeSingle of its mounted manager awaiting its response.
C17_OneMutationInFlight ==
  \A s \in Sessions :
    BagCardinality([t \in {u \in TasksOf(s) : Unanswered(u)} |-> tasks[t]]) <= 1

\* C18: a step of a commit on a role leaves the rows of every other role in
\* role_permissions as they are (the interleaving of two commits on one role
\* that leaves the role with neither selection is C18_Witness).
C18_OtherRolesUntouched ==
  [][\A t \in InFlight :
       (t.h = "assign" /\ \E u \in InFlight' : u # t /\ tasks' = Replace(t, u))
         => \A r \in RoleIds \ {t.arg.role} :
              PermissionsOf(role_permissions', r) = PermissionsOf(role_permissions, r)
    ]_vars

\* C18's case: two sessions have committed different selections to one role,
\* both deletes were executed before both inserts and both inserts succeeded:
\* the role holds a set that is neither selection.
C18_Witness ==
  \E t, u \in InFlight :
    /\ t.s = 1 /\ u.s = 2 /\ t.h = "assign" /\ u.h = "assign"
    /\ t.arg.role = u.arg.role
    /\ Range(t.arg.perms) # Range(u.arg.perms)
    /\ t.pc = "insert_resp" /\ ~t.res.error /\ t.arg.deleted
    /\ u.pc = "insert_resp" /\ ~u.res.error /\ u.arg.deleted
    /\ PermissionsOf(role_permissions, t.arg.role) \notin {Range(t.arg.perms), Range(u.arg.perms)}

\* The answer a handler is about to read reports an error.
AnsweredWithError(t) ==
  \/ t.h \in {"fetchRows", "submit", "delete", "remove"} /\ t.pc = "resp" /\ t.res.error
  \/ t.h = "assign" /\ t.pc \in {"delete_resp", "insert_resp"} /\ t.res.error
  \/ t.h = "fetchData" /\ t.pc = "resp" /\ FetchDataFailed(t)

\* C19: the step in which a handler reads an answer that reports an error
\* raises one error notification and ends the handler without sending a
\* request; and the step that reports the success of a commit belongs to a
\* commit whose delete the store executed.
C19_EveryFailureSurfaced ==
  [][\A t \in InFlight :
       /\ (AnsweredWithError(t) /\ Resumes(t))
            => /\ toast'[t.s].title = "Error"
               /\ tasks' = Finish(t)
       /\ (/\ t.h = "assign" /\ t.pc = "insert_resp" /\ Resumes(t)
           /\ toast'[t.s].title = "Success")
            => t.arg.deleted
    ]_vars

\* C20: the step that observes the successful insert of a commit of a mounted
\* manager closes the dialog, clears the selected role and the selection,
\* reports success and sends the refresh; a step that closes the dialog
\* without being such a step (a cancel) sends no request and leaves the store
\* as it is; every step that opens the dialog opens it with no role and an
\* empty selection; and an open dialog without a role has an empty selection.
C20_DialogCycle ==
  [][\A s \in Sessions :
       /\ \A t \in InFlight :
            (/\ t.s = s /\ t.live /\ t.h = "assign" /\ t.pc = "insert_resp"
             /\ ~t.res.error /\ Resumes(t))
              => /\ ~assignment'[s].isDialogOpen
                 /\ Pending(s)' = <<NoRole, <<>>>>
                 /\ toast'[s].title = "Success"
                 /\ tasks' = Replace(t, FetchDataTask(s))
       /\ (assignment[s].isDialogOpen /\ ~assignment'[s].isDialogOpen /\ tab' = tab)
            => \/ UNCHANGED <<store, tasks>>
               \/ \E t \in InFlight :
                    /\ t.s = s /\ t.h = "assign" /\ t.pc = "insert_resp" /\ ~t.res.error
                    /\ Resumes(t)
       /\ (~assignment[s].isDialogOpen /\ assignment'[s].isDialogOpen)
            => Pending(s)' = <<NoRole, <<>>>> /\ UNCHANGED <<store, tasks>>
       /\ (assignment'[s].isDialogOpen /\ assignment'[s].selectedRole = NoRole)
            => assignment'[s].selectedPermissions = <<>>
    ]_vars

\* C20's case: the dialog was cancelled with a selection for a role that
\* differs from the role's rows in the store; no request is in flight.
C20_Witness ==
  /\ ~assignment[1].isDialogOpen /\ ~assignment[1].loading
  /\ assignment[1].selectedRole # NoRole
  /\ assignment[1].selectedPermissions # <<>>
  /\ Range(assignment[1].selectedPermissions)
       # PermissionsOf(role_permissions, assignment[1].selectedRole)
  /\ PermissionsOf(role_permissions, assignment[1].selectedRole) # {}
  /\ BagCardinality(tasks) = 0

\* C21: in every state the pending selection of every session and the
\* selection of every commit in flight hold no permission id twice; and on the
\* pending selection handlePermissionToggle(p, false) leaves no entry p and
\* keeps the other entries, and handlePermissionToggle(p, true) for a p that the
\* selection lacks (the only p a checkbox reports true for) adds p once.
C21_SelectionHoldsNoDuplicate ==
  /\ \A t \in InFlight : t.h = "assign" => ~HasDuplicates(t.arg.perms)
  /\ \A s \in Sessions :
       LET prev == assignment[s].selectedPermissions IN
         /\ ~HasDuplicates(prev)
         /\ \A p \in PermissionIds :
              /\ Range(handlePermissionToggle(prev, p, FALSE)) = Range(prev) \ {p}
              /\ ~HasDuplicates(handlePermissionToggle(prev, p, FALSE))
              /\ p \notin Range(prev)
                   => /\ Range(handlePermissionToggle(prev, p, TRUE)) = Range(prev) \cup {p}
                      /\ ~HasDuplicates(handlePermissionToggle(prev, p, TRUE))

\* C21's case: a permission was checked, unchecked and checked again after
\* another one, and the selection was committed: the commit in flight carries
\* both permissions once, in the order of the last checks.
C21_Witness ==
  \E t \in InFlight :
    /\ t.h = "assign" /\ t.pc = "insert_sent" /\ t.arg.deleted
    /\ Len(t.arg.perms) = SeedPermissions
    /\ t.arg.perms[1] > t.arg.perms[Len(t.arg.perms)]
    /\ assignment[t.s].selectedPermissions = t.arg.perms
    /\ PermissionsOf(role_permissions, t.arg.role) = {}

\* C21 as stated: handlePermissionToggle(p, true) on a pending selection that
\* contains p leaves the selection as it is, handlePermissionToggle(p, false)
\* leaves no entry p, and no commit in flight carries a permission id twice.
C21_ToggleIsSetMutation ==
  /\ \A t \in InFlight : t.h = "assign" => ~HasDuplicates(t.arg.perms)
  /\ \A s \in Sessions :
       LET prev == assignment[s].selectedPermissions IN
         \A p \in PermissionIds :
           /\ p \in Range(prev) => handlePermissionToggle(prev, p, TRUE) = prev
           /\ p \notin Range(handlePermissionToggle(prev, p, FALSE))

\* The rows of `rows` whose role_id is not roleId.
RowsOfOthers(rows, roleId) == {rp \in rows : rp[1] # roleId}

\* C22: every step of a commit(r, S), whether its request is executed, lost or
\* rejected, keeps each row of role_permissions whose role_id is not r, adds
\* only rows <<r, p>> with p in S, removes only rows of r, and leaves the tables
\* permissions, roles and user_roles as they are.
C22_CommitFrame ==
  [][\A t \in InFlight :
       (t.h = "assign" /\ Resumes(t))
         => /\ RowsOfOthers(role_permissions', t.arg.role)
                 = RowsOfOthers(role_permissions, t.arg.role)
            /\ (role_permissions' \ role_permissions) \subseteq ({t.arg.role} \X Range(t.arg.perms))
            /\ (role_permissions \ role_permissions') \subseteq ({t.arg.role} \X PermissionIds)
            /\ UNCHANGED <<permissions, roles, user_roles>>
    ]_vars

\* C22's case: a commit on a role whose delete was executed and whose insert
\* failed has emptied that role, while another role still holds the rows of an
\* earlier commit.
C22_Witness ==
  \E t \in InFlight :
    /\ t.h = "assign" /\ t.pc = "insert_resp" /\ t.res.error /\ t.arg.deleted
    /\ PermissionsOf(role_permissions, t.arg.role) = {}
    /\ RowsOfOthers(role_permissions, t.arg.role) # {}
    /\ \E r \in RoleIds : permissionsFor(t.s, r) # PermissionsOf(role_permissions, r)

\* C23: the step in which a commit observes the error of its insert raises the
\* error notification, sends nothing and leaves the store and the whole state
\* of the assignment manager (dialog, selected role, selection, in-memory
\* lists) as they are; if the dialog then still shows the commit's role and
\* selection, commit can be invoked again; and every commit that is sent
\* carries the selected role and the selection of that moment.
C23_FailedInsertKeepsDialog ==
  [][/\ \A t \in InFlight :
          (t.h = "assign" /\ t.pc = "insert_resp" /\ t.res.error /\ Resumes(t))
            => /\ toast' = Toast(t.s, "Error", "message")
               /\ tasks' = Finish(t)
               /\ UNCHANGED <<store, tab, assignment>>
               /\ (/\ t.live /\ assignment[t.s].isDialogOpen
                   /\ Pending(t.s) = <<t.arg.role, t.arg.perms>>)
                    => /\ Assigning(t.s)' /\ assignment'[t.s].isDialogOpen
                       /\ ~AssignInvalid(t.s)'
                       /\ Pending(t.s)' = <<t.arg.role, t.arg.perms>>
     /\ \A u \in InFlight' :
          (u.h = "assign" /\ u.pc = "delete_sent" /\ Sent(u) /\ tab' = tab)
            => /\ tasks' = Start(u)
               /\ <<u.arg.role, u.arg.perms>> = Pending(u.s)
               /\ UNCHANGED <<store, assignment>>
    ]_vars

\* C23's case: the insert of a commit on a role that held rows has failed
\* after its delete was executed: the error is shown, the dialog is open with
\* the role and a selection, no request is in flight, and the in-memory list
\* still shows the rows the role held before.
C23_Witness ==
  /\ toast[1] = ErrorToast("message")
  /\ assignment[1].isDialogOpen /\ ~AssignInvalid(1)
  /\ BagCardinality(tasks) = 0
  /\ PermissionsOf(role_permissions, assignment[1].selectedRole) = {}
  /\ permissionsFor(1, assignment[1].selectedRole) # {}

\* C24: the step in which a mounted PermissionsManager or RolesManager
\* receives the successful answer of a fetch and is left with no request in
\* flight sets a list that equals the store's table, in whatever order the
\* answers of its overlapping fetches arrived.
C24_QuiescentListIsCurrent ==
  [][\A t \in InFlight :
       (/\ t.h = "fetchRows" /\ t.pc = "resp" /\ ~t.res.error /\ t.live
        /\ tasks' = Finish(t) /\ tasks' = EmptyBag)
         => manager'[t.s][t.k].rows = SelectAll(Table(t.k))'
    ]_vars

====
